---------------------------- MODULE Spec2Model ----------------------------
(***************************************************************************)
(* A model of gmi2html.py: the gemtext tokenizer (tokenize), the AST       *)
(* builder (build_ast), the HTML renderer (write_html) and the conversion  *)
(* entry point (gmi2html).                                                 *)
(*                                                                         *)
(* Text is a sequence of atoms.  An atom that comes from the input is one  *)
(* character (a one-character string); an atom that comes from a string    *)
(* literal of write_html is that literal fragment.                         *)
(***************************************************************************)
EXTENDS Integers, Sequences, FiniteSets, TLC

(***************************************************************************)
(* Bounds of the model.                                                    *)
(***************************************************************************)
\* The longest input (in lines) a conversion reads.
MaxLines == 4
\* The longest line body (without its terminator) of the line classifier's
\* exhaustive specification SpecLine.
MaxLineLen == 5
\* The longest token sequence handed to build_ast, and the longest node
\* sequence handed to write_html, by a caller other than gmi2html.
MaxDirect == 2

(***************************************************************************)
(* Python's None.                                                          *)
(***************************************************************************)
None == [kind |-> "None"]

(***************************************************************************)
(* Strings.                                                                *)
(***************************************************************************)
\* The whitespace characters of str.strip() and of the regex class \s.
WS == {" ", "\t", "\n", "\r"}

\* The number of leading atoms of s that are in the set C.
RECURSIVE Span(_, _)
Span(s, C) ==
    IF s # <<>> /\ Head(s) \in C THEN 1 + Span(Tail(s), C) ELSE 0

\* The number of leading atoms of s that are not in the set C.
RECURSIVE SpanNot(_, _)
SpanNot(s, C) ==
    IF s # <<>> /\ Head(s) \notin C THEN 1 + SpanNot(Tail(s), C) ELSE 0

\* s[n:]
Drop(s, n) == SubSeq(s, n + 1, Len(s))

\* str.lstrip()
lstrip(s) == Drop(s, Span(s, WS))

\* str.rstrip()
RECURSIVE rstrip(_)
rstrip(s) ==
    IF s # <<>> /\ s[Len(s)] \in WS THEN rstrip(SubSeq(s, 1, Len(s) - 1)) ELSE s

\* str.strip()
strip(s) == rstrip(lstrip(s))

\* str.startswith(p)
startswith(s, p) == Len(s) >= Len(p) /\ SubSeq(s, 1, Len(p)) = p

\* The backquote character (written as a word: the one atom of the input
\* alphabet that a TLA+ string literal cannot hold).
BQ == "BQ"

\* The fence marker of lines 78 and 89: three backquotes.
Fence == <<BQ, BQ, BQ>>

\* What the regex .* matches at the start of s: everything up to a newline.
DotStar(s) == SubSeq(s, 1, SpanNot(s, {"\n"}))

(***************************************************************************)
(* The three line patterns, each applied with re.match (anchored at the    *)
(* start of the line, not at its end).  A match is a record with           *)
(* matched = TRUE and the named groups; NoMatch is Python's None.          *)
(***************************************************************************)
NoMatch == [matched |-> FALSE]

\* header_regex = (?P<tag>#+)\s+(?P<title>.*)
header_regex(line) ==
    LET k    == Span(line, {"#"})
        rest == Drop(line, k)
        w    == Span(rest, WS)
    IN  IF k >= 1 /\ w >= 1
        THEN [matched |-> TRUE, tag |-> SubSeq(line, 1, k),
              title |-> DotStar(Drop(rest, w))]
        ELSE NoMatch

\* element_regex = \*\s+(?P<content>.*)
element_regex(line) ==
    LET rest == Drop(line, 1)
        w    == Span(rest, WS)
    IN  IF line # <<>> /\ Head(line) = "*" /\ w >= 1
        THEN [matched |-> TRUE, content |-> DotStar(Drop(rest, w))]
        ELSE NoMatch

\* The optional group (\s+(?P<title>.+))? of link_regex, matched at the start
\* of s (the text after the target): \s+ takes the longest run of whitespace
\* that still leaves .+ a character to match.  has_title is FALSE when the
\* group does not take part in the match (groupdict gives None).
link_title(s) ==
    LET w == Span(s, WS)
        J == {j \in 1..w : Len(s) > j /\ s[j + 1] # "\n"}
    IN  IF J = {}
        THEN [has_title |-> FALSE, title |-> <<>>]
        ELSE LET j == CHOOSE x \in J : \A y \in J : y <= x
             IN  [has_title |-> TRUE, title |-> DotStar(Drop(s, j))]

\* link_regex, were whitespace required between "=>" and the target (\s+).
link_regex_space(line) ==
    LET rest == Drop(line, 2)
        w    == Span(rest, WS)
        body == Drop(rest, w)
        t    == SpanNot(body, WS)
        g    == link_title(Drop(body, t))
    IN  IF startswith(line, <<"=", ">">>) /\ w >= 1 /\ t >= 1
        THEN [matched |-> TRUE, target |-> SubSeq(body, 1, t),
              has_title |-> g.has_title, title |-> g.title]
        ELSE NoMatch

\* link_regex = =>\s*(?P<target>\S+)(\s+(?P<title>.+))?
link_regex(line) ==
    LET rest == Drop(line, 2)
        w    == Span(rest, WS)
        body == Drop(rest, w)
        t    == SpanNot(body, WS)
        g    == link_title(Drop(body, t))
    IN  IF startswith(line, <<"=", ">">>) /\ t >= 1
        THEN [matched |-> TRUE, target |-> SubSeq(body, 1, t),
              has_title |-> g.has_title, title |-> g.title]
        ELSE NoMatch

\* Line 98: the message of the tokenizer's ValueError.
UnterminatedQuote == "Found a quote without end tag"

\* Lines 172 and 302: the messages of the unhandled-kind ValueErrors.
UnhandledToken == "Unhandled token of kind"
UnhandledNode == "Unhandled node of kind"

(***************************************************************************)
(* tokenize: what one iteration of "for line in gmi" does.  The result is  *)
(* the new value of quote_token and the token the iteration yields         *)
(* (yield = None when it yields nothing).                                  *)
(***************************************************************************)
\* str.format's rendering of a small non-negative integer.
Decimal(n) == ToString(n)

\* NormalLine, were blank lines skipped instead of yielded as paragraphs.
NormalLineSkipBlank(raw) ==
    LET line == strip(raw)
        h    == header_regex(line)
        e    == element_regex(line)
        l    == link_regex(line)
    IN  IF h.matched
        THEN [quote_token |-> None,
              yield |-> [kind |-> "header", level |-> Len(h.tag),
                         title |-> h.title]]
        ELSE IF e.matched
        THEN [quote_token |-> None,
              yield |-> [kind |-> "element", content |-> e.content]]
        ELSE IF l.matched
        THEN [quote_token |-> None,
              yield |-> [kind |-> "link", target |-> l.target,
                         title |-> IF l.has_title THEN l.title ELSE <<>>]]
        ELSE IF startswith(line, Fence)
        THEN [quote_token |-> [kind |-> "quote", content |-> <<>>],
              yield |-> None]
        ELSE IF line = <<>>
        THEN [quote_token |-> None, yield |-> None]
        ELSE [quote_token |-> None,
              yield |-> [kind |-> "p", content |-> line]]

\* Lines 38-84: the normal state.  The line is stripped, then the patterns are
\* tried in the order header, element, link, fence; anything else is text.
NormalLine(raw) ==
    LET line == strip(raw)
        h    == header_regex(line)
        e    == element_regex(line)
        l    == link_regex(line)
    IN  IF h.matched
        THEN [quote_token |-> None,
              yield |-> [kind |-> "header", level |-> Len(h.tag),
                         title |-> h.title]]
        ELSE IF e.matched
        THEN [quote_token |-> None,
              yield |-> [kind |-> "element", content |-> e.content]]
        ELSE IF l.matched
        THEN [quote_token |-> None,
              yield |-> [kind |-> "link", target |-> l.target,
                         title |-> IF l.has_title THEN l.title ELSE <<>>]]
        ELSE IF startswith(line, Fence)
        THEN [quote_token |-> [kind |-> "quote", content |-> <<>>],
              yield |-> None]
        ELSE [quote_token |-> None,
              yield |-> [kind |-> "p", content |-> line]]

\* QuoteLine, were the lines of a block stripped like the lines of the normal
\* state.
QuoteLineStripped(qt, raw) ==
    IF startswith(raw, Fence)
    THEN [quote_token |-> None, yield |-> qt]
    ELSE [quote_token |-> [qt EXCEPT !.content = @ \o strip(raw)], yield |-> None]

\* QuoteLine, were the closing fence tested on the stripped line.
QuoteLineStripFence(qt, raw) ==
    IF startswith(strip(raw), Fence)
    THEN [quote_token |-> None, yield |-> qt]
    ELSE [quote_token |-> [qt EXCEPT !.content = @ \o raw], yield |-> None]

\* QuoteLine, were the lines of a block that match the header pattern yielded
\* as header tokens.
QuoteLineClassifies(qt, raw) ==
    IF startswith(raw, Fence)
    THEN [quote_token |-> None, yield |-> qt]
    ELSE IF header_regex(strip(raw)).matched
    THEN [quote_token |-> qt, yield |-> NormalLine(raw).yield]
    ELSE [quote_token |-> [qt EXCEPT !.content = @ \o raw], yield |-> None]

\* Lines 86-94: the quote state.  The line is not stripped: the closing fence
\* is tested on the line as read, and any other line is appended as read.
QuoteLine(qt, raw) ==
    IF startswith(raw, Fence)
    THEN [quote_token |-> None, yield |-> qt]
    ELSE [quote_token |-> [qt EXCEPT !.content = @ \o raw], yield |-> None]

\* Lines 33-94: one iteration of the loop.
TokenizeLine(qt, raw) ==
    IF qt = None THEN NormalLine(raw) ELSE QuoteLine(qt, raw)

(***************************************************************************)
(* build_ast: the body of "for token in tokens" and the code after the     *)
(* loop, on the builder's state b = [root, links_node, list_node,          *)
(* quote_node].                                                            *)
(***************************************************************************)
\* Lines 106-109.
BuilderInit ==
    [root |-> <<>>, links_node |-> None, list_node |-> None, quote_node |-> None]

\* CloseLinks, were the closed aggregator appended to root and left open.
CloseLinksKeepOpen(b, token) ==
    IF b.links_node # None /\ token.kind # "link"
    THEN [b EXCEPT !.root = Append(@, b.links_node)]
    ELSE b

\* Lines 112-114.
CloseLinks(b, token) ==
    IF b.links_node # None /\ token.kind # "link"
    THEN [b EXCEPT !.root = Append(@, b.links_node), !.links_node = None]
    ELSE b

\* CloseList, were the list aggregator left open whatever token arrives.
CloseListNever(b, token) == b

\* Lines 116-118.
CloseList(b, token) ==
    IF b.list_node # None /\ token.kind # "element"
    THEN [b EXCEPT !.root = Append(@, b.list_node), !.list_node = None]
    ELSE b

\* Lines 120-122.
CloseQuote(b, token) ==
    IF b.quote_node # None /\ token.kind # "quote"
    THEN [b EXCEPT !.root = Append(@, b.quote_node), !.quote_node = None]
    ELSE b

\* CloseNodes, were only the links aggregator closed by a token of another kind.
CloseNodesLinksOnly(b, token) == CloseLinks(b, token)

\* Lines 112-122: "Close node if needed".
CloseNodes(b, token) == CloseQuote(CloseList(CloseLinks(b, token), token), token)

\* The token kinds lines 125-170 handle; any other kind reaches line 172.
TokenKinds == {"header", "p", "link", "element", "quote"}

\* Lines 125-170: the token is appended as a node of its own (header, p) or
\* to the aggregator of its kind, which is created when it is None.
AddToken(b, token) ==
    CASE token.kind = "header" ->
           [b EXCEPT !.root = Append(@, [kind |-> "header",
                                         level |-> token.level,
                                         title |-> token.title])]
      [] token.kind = "p" ->
           [b EXCEPT !.root = Append(@, [kind |-> "p",
                                         content |-> token.content])]
      [] token.kind = "link" ->
           LET node  == [kind |-> "link", target |-> token.target,
                         title |-> token.title]
               links == IF b.links_node = None
                        THEN [kind |-> "links", links |-> <<>>]
                        ELSE b.links_node
           IN  [b EXCEPT !.links_node =
                           [links EXCEPT !.links = Append(@, node)]]
      [] token.kind = "element" ->
           LET list == IF b.list_node = None
                       THEN [kind |-> "list", elements |-> <<>>]
                       ELSE b.list_node
           IN  [b EXCEPT !.list_node =
                           [list EXCEPT !.elements = Append(@, token.content)]]
      [] token.kind = "quote" ->
           LET quote == IF b.quote_node = None
                        THEN [kind |-> "quote", content |-> <<>>]
                        ELSE b.quote_node
           IN  [b EXCEPT !.quote_node =
                           [quote EXCEPT !.content = Append(@, token.content)]]
      [] OTHER -> b

\* BuildToken, were the token added before the open aggregators are closed.
BuildTokenAddFirst(b, token) == CloseNodes(AddToken(b, token), token)

\* Lines 111-172: one iteration of the loop.
BuildToken(b, token) == AddToken(CloseNodes(b, token), token)

\* Lines 177-178.
FlushLinks(b) ==
    IF b.links_node # None THEN [b EXCEPT !.root = Append(@, b.links_node)] ELSE b

\* Lines 180-181.
FlushList(b) ==
    IF b.list_node # None THEN [b EXCEPT !.root = Append(@, b.list_node)] ELSE b

\* Lines 183-184.
FlushQuote(b) ==
    IF b.quote_node # None THEN [b EXCEPT !.root = Append(@, b.quote_node)] ELSE b

\* BuildFinish, were root returned without the aggregator still open.
BuildFinishNoFlush(b) == b

\* Lines 174-186: what build_ast returns once the tokens are exhausted.
BuildFinish(b) == FlushQuote(FlushList(FlushLinks(b)))

(***************************************************************************)
(* write_html.  Each write is one text; a node's fragment is the sequence  *)
(* of writes the loop body makes for it.                                   *)
(***************************************************************************)
\* Line 196.
FallbackTitle == <<"Page without title">>

\* FindTitle, were the level of the header not tested.
RECURSIVE FindTitleAnyLevel(_)
FindTitleAnyLevel(ast) ==
    IF ast = <<>>
    THEN FallbackTitle
    ELSE IF Head(ast).kind = "header"
         THEN Head(ast).title
         ELSE FindTitleAnyLevel(Tail(ast))

\* FindTitle, were the title left empty when no header of level 1 is found.
RECURSIVE FindTitleNoFallback(_)
FindTitleNoFallback(ast) ==
    IF ast = <<>>
    THEN <<>>
    ELSE IF Head(ast).kind = "header" /\ Head(ast).level = 1
         THEN Head(ast).title
         ELSE FindTitleNoFallback(Tail(ast))

\* Lines 191-196: the for/else scan, which stops at the first header node of
\* level 1.
RECURSIVE FindTitle(_)
FindTitle(ast) ==
    IF ast = <<>>
    THEN FallbackTitle
    ELSE IF Head(ast).kind = "header" /\ Head(ast).level = 1
         THEN Head(ast).title
         ELSE FindTitle(Tail(ast))

\* Lines 198-204: the first write.
HeadText(title) ==
    <<"<!DOCTYPE html>\n<html lang=\"en\">\n  <head>\n   <meta charset=\"utf-8\">\n   <title>">>
    \o title \o <<"</title>\n">>

\* Lines 206-262: the second write, the style sheet and the opening of the body
\* (the style rules are the same for every document and are not spelled out).
StyleText == <<"  <style type=\"text/css\">...</style>\n </head>\n <body>\n">>

\* Lines 304-309: the last write.
TailText == <<" </body>\n</html>\n">>

\* LinkWrites, were only the first link of a links node written.
LinkWritesFirstOnly(links) ==
    IF links = <<>>
    THEN <<>>
    ELSE << <<"    <li><a href=\"">> \o Head(links).target \o <<"\">">>
            \o Head(links).title \o <<"</a></li>\n">> >>

\* Lines 277-281: one write per link of a links node.
RECURSIVE LinkWrites(_)
LinkWrites(links) ==
    IF links = <<>>
    THEN <<>>
    ELSE << <<"    <li><a href=\"">> \o Head(links).target \o <<"\">">>
            \o Head(links).title \o <<"</a></li>\n">> >>
         \o LinkWrites(Tail(links))

\* Lines 289-290: one write per element of a list node.
RECURSIVE ElementWrites(_)
ElementWrites(elements) ==
    IF elements = <<>>
    THEN <<>>
    ELSE << <<"    <li>">> \o Head(elements) \o <<"</li>\n">> >>
         \o ElementWrites(Tail(elements))

\* Lines 297-298: one write per content of a quote node.
RECURSIVE ContentWrites(_)
ContentWrites(content) ==
    IF content = <<>>
    THEN <<>>
    ELSE << Head(content) \o <<"\n">> >> \o ContentWrites(Tail(content))

\* The node kinds lines 264-300 handle; any other kind reaches line 302.
NodeKinds == {"header", "p", "links", "list", "quote"}

\* Lines 264-300: the writes of one iteration of "for node in ast".
NodeWrites(node) ==
    CASE node.kind = "header" ->
           << <<"  <h", Decimal(node.level), ">">> \o node.title
              \o <<"</h", Decimal(node.level), ">\n">> >>
      [] node.kind = "p" ->
           << <<"  <p>">> \o node.content \o <<"</p>\n">> >>
      [] node.kind = "links" ->
           << <<"  <ul>\n">> >> \o LinkWrites(node.links) \o << <<"  </ul>\n">> >>
      [] node.kind = "list" ->
           << <<"  <ul>\n">> >> \o ElementWrites(node.elements)
           \o << <<"  </ul>\n">> >>
      [] node.kind = "quote" ->
           << <<"  <pre>\n">> >> \o ContentWrites(node.content)
           \o << <<"  </pre>\n">> >>
      [] OTHER -> <<>>

(***************************************************************************)
(* The input.                                                              *)
(***************************************************************************)
\* The lines a conversion may read, each with its line terminator: a level-1
\* header, a level-2 header, a second level-1 header, a list item, a link with
\* a title, a link with neither whitespace nor title, a fence, a fence behind
\* leading whitespace, text between whitespace, and a blank line.
LineSet ==
    { <<"#", " ", "a", "\n">>,
      <<"#", "#", " ", "b", "\n">>,
      <<"#", " ", "b", "\n">>,
      <<"*", " ", "a", "\n">>,
      <<"=", ">", " ", "a", " ", "b", "\n">>,
      <<"=", ">", "a", "\n">>,
      <<BQ, BQ, BQ, "\n">>,
      <<" ", BQ, BQ, BQ, "\n">>,
      <<" ", "a", " ", "\n">>,
      <<"\n">> }

(***************************************************************************)
(* The state of one conversion, gmi2html(gmi, out).                        *)
(***************************************************************************)
VARIABLES
    pc,           \* where the conversion is
    gmi,          \* the lines the tokenizer has read from the stream so far
    fence_at,     \* history: the place in gmi of the last opening fence (0: none)
    quote_token,  \* tokenize: None in the normal state, the token being
                  \* accumulated in the quote state
    token,        \* build_ast: the token the generator has just yielded
    tokens,       \* the tokens the generator has yielded so far
    root,         \* build_ast: the node sequence
    links_node,   \* build_ast: the open links aggregator, or None
    list_node,    \* build_ast: the open list aggregator, or None
    quote_node,   \* build_ast: the open quote aggregator, or None
    title,        \* write_html: the title found
    ni,           \* write_html: how many nodes the loop of line 263 has rendered
    out,          \* the writes made to the sink, in order
    err,          \* the message of the ValueError that ended the conversion
    entry,        \* the function the caller called
    stdin,        \* cmd_inetd: the request line waiting on /dev/stdin
    response,     \* cmd_inetd: its own writes to /dev/stdout, in order, made
                  \* before it hands the same sink to gmi2html
    prev          \* how the previous call of gmi2html in this process ended
                  \* ("" when there was none)

vars == <<pc, gmi, fence_at, quote_token, token, tokens, root, links_node,
          list_node, quote_node, title, ni, out, err, entry, stdin, response,
          prev>>

tokenizerVars == <<gmi, fence_at, quote_token, tokens>>
builderVars == <<root, links_node, list_node, quote_node>>
writerVars == <<title, ni, out>>
callVars == <<entry, stdin, response, prev>>

\* The builder's variables as one record, and back.
Builder ==
    [root |-> root, links_node |-> links_node, list_node |-> list_node,
     quote_node |-> quote_node]

SetBuilder(b) ==
    /\ root' = b.root
    /\ links_node' = b.links_node
    /\ list_node' = b.list_node
    /\ quote_node' = b.quote_node

\* Lines 313-314 and 29, 106-109: gmi2html creates the generator and calls
\* build_ast, which asks it for the first token.
Init ==
    /\ pc = "tokenize"
    /\ gmi = <<>>
    /\ fence_at = 0
    /\ quote_token = None
    /\ token = None
    /\ tokens = <<>>
    /\ root = BuilderInit.root
    /\ links_node = BuilderInit.links_node
    /\ list_node = BuilderInit.list_node
    /\ quote_node = BuilderInit.quote_node
    /\ title = <<>>
    /\ ni = 0
    /\ out = <<>>
    /\ err = ""
    /\ entry = "gmi2html"
    /\ stdin = <<>>
    /\ response = <<>>
    /\ prev = ""

\* Lines 32-94: the generator reads one more line.  When the iteration yields
\* a token, control passes to the body of build_ast's loop; otherwise the
\* generator goes on to the next line.
ReadLine ==
    /\ pc = "tokenize"
    /\ entry # "build_ast"
    /\ Len(gmi) < MaxLines
    /\ \E line \in LineSet :
         LET r == TokenizeLine(quote_token, line)
         IN  /\ gmi' = Append(gmi, line)
             /\ fence_at' = IF quote_token = None /\ r.quote_token # None
                          THEN Len(gmi) + 1
                          ELSE fence_at
             /\ quote_token' = r.quote_token
             /\ token' = r.yield
             /\ tokens' = IF r.yield = None THEN tokens ELSE Append(tokens, r.yield)
             /\ pc' = IF r.yield = None THEN "tokenize" ELSE "build"
    /\ UNCHANGED <<builderVars, writerVars, err, callVars>>

\* EndOfInput, were the tokenizer to yield the unfinished quote token at the end
\* of the stream instead of raising.
EndOfInputFlush ==
    /\ pc = "tokenize"
    /\ entry # "build_ast"
    /\ IF quote_token # None
       THEN /\ pc' = "build"
            /\ token' = quote_token
            /\ tokens' = Append(tokens, quote_token)
            /\ quote_token' = None
       ELSE /\ pc' = "exhausted"
            /\ UNCHANGED <<token, tokens, quote_token>>
    /\ UNCHANGED <<gmi, fence_at, builderVars, writerVars, err, callVars>>

\* Lines 96-98: the stream is at its end.  In the quote state the generator
\* raises, and the error leaves build_ast and gmi2html; otherwise the
\* generator is exhausted and build_ast's loop ends.
EndOfInput ==
    /\ pc = "tokenize"
    /\ entry # "build_ast"
    /\ IF quote_token # None
       THEN /\ pc' = "error"
            /\ err' = UnterminatedQuote
       ELSE /\ pc' = "exhausted"
            /\ err' = err
    /\ UNCHANGED <<tokenizerVars, token, builderVars, writerVars, callVars>>

\* BuildStep, were the renderer interleaved with the builder: every node is
\* written as soon as it is appended to root.
BuildStepStreaming ==
    /\ pc = "build"
    /\ token.kind \in TokenKinds
    /\ LET b == BuildToken(Builder, token)
           RECURSIVE Written(_)
           Written(nodes) ==
               IF nodes = <<>> THEN <<>>
               ELSE NodeWrites(Head(nodes)) \o Written(Tail(nodes))
       IN  /\ SetBuilder(b)
           /\ out' = out \o Written(SubSeq(b.root, Len(root) + 1, Len(b.root)))
    /\ pc' = "tokenize"
    /\ token' = None
    /\ UNCHANGED <<tokenizerVars, title, ni, err, callVars>>

\* BuildStep, were the head of the document written as soon as the first token
\* is built, with the title known at that point.
BuildStepHeadEarly ==
    /\ pc = "build"
    /\ token.kind \in TokenKinds
    /\ SetBuilder(BuildToken(Builder, token))
    /\ out' = IF out = <<>>
              THEN <<HeadText(FindTitle(BuildFinish(BuildToken(Builder, token)).root))>>
              ELSE out
    /\ pc' = "tokenize"
    /\ token' = None
    /\ UNCHANGED <<tokenizerVars, title, ni, err, callVars>>

\* Lines 111-172: the body of build_ast's loop for the token just yielded, then
\* the generator is asked for the next token.
BuildStep ==
    /\ pc = "build"
    /\ IF token.kind \in TokenKinds
       THEN /\ SetBuilder(BuildToken(Builder, token))
            /\ pc' = "tokenize"
            /\ err' = err
       ELSE /\ SetBuilder(CloseNodes(Builder, token))
            /\ pc' = "error"
            /\ err' = UnhandledToken
    /\ token' = None
    /\ UNCHANGED <<tokenizerVars, writerVars, callVars>>

\* Lines 174-186 and 315: build_ast appends the aggregator still open and
\* returns root, which gmi2html hands to write_html.
BuildReturn ==
    /\ pc = "exhausted"
    /\ SetBuilder(BuildFinish(Builder))
    /\ pc' = IF entry = "build_ast" THEN "returned" ELSE "write_head"
    /\ UNCHANGED <<tokenizerVars, token, writerVars, err, callVars>>

\* Lines 191-262: write_html finds the title and writes the head of the document.
WriteHead ==
    /\ pc = "write_head"
    /\ title' = FindTitle(root)
    /\ out' = out \o <<HeadText(FindTitle(root)), StyleText>>
    /\ pc' = "write_body"
    /\ UNCHANGED <<tokenizerVars, token, builderVars, ni, err, callVars>>

\* WriteNode, were a node of an unknown kind skipped.
WriteNodeSkipUnknown ==
    /\ pc = "write_body"
    /\ ni < Len(root)
    /\ out' = IF root[ni + 1].kind \in NodeKinds
              THEN out \o NodeWrites(root[ni + 1])
              ELSE out
    /\ ni' = ni + 1
    /\ UNCHANGED <<pc, tokenizerVars, token, builderVars, title, err, callVars>>

\* Lines 263-302: one iteration of "for node in ast".
WriteNode ==
    /\ pc = "write_body"
    /\ ni < Len(root)
    /\ LET node == root[ni + 1]
       IN  IF node.kind \in NodeKinds
           THEN /\ out' = out \o NodeWrites(node)
                /\ ni' = ni + 1
                /\ pc' = pc
                /\ err' = err
           ELSE /\ out' = out
                /\ ni' = ni
                /\ pc' = "error"
                /\ err' = UnhandledNode
    /\ UNCHANGED <<tokenizerVars, token, builderVars, title, callVars>>

\* Lines 304-309: after the last node, the tail of the document.
WriteTail ==
    /\ pc = "write_body"
    /\ ni = Len(root)
    /\ out' = Append(out, TailText)
    /\ pc' = "done"
    /\ UNCHANGED <<tokenizerVars, token, builderVars, title, ni, err, callVars>>

Next ==
    \/ ReadLine
    \/ EndOfInput
    \/ BuildStep
    \/ BuildReturn
    \/ WriteHead
    \/ WriteNode
    \/ WriteTail

Spec == Init /\ [][Next]_vars

\* The conversion is one sequential program: whenever it has a next step, it
\* takes it.
FairSpec == Spec /\ WF_vars(Next)

(***************************************************************************)
(* The line classifier alone (lines 38-84), on every line of at most       *)
(* MaxLineLen characters of the alphabet: the tokenizer, in its normal     *)
(* state, reads the first line of a stream.                                *)
(***************************************************************************)
Alphabet == {"#", "*", "=", ">", BQ, " ", "a"}

LineBodies == UNION {[1..n -> Alphabet] : n \in 0..MaxLineLen}

InitLine ==
    /\ pc = "classify"
    /\ \E body \in LineBodies : gmi = << body \o <<"\n">> >>
    /\ fence_at = 0
    /\ quote_token = None
    /\ token = None
    /\ tokens = <<>>
    /\ root = BuilderInit.root
    /\ links_node = BuilderInit.links_node
    /\ list_node = BuilderInit.list_node
    /\ quote_node = BuilderInit.quote_node
    /\ title = <<>>
    /\ ni = 0
    /\ out = <<>>
    /\ err = ""
    /\ entry = "tokenize"
    /\ stdin = <<>>
    /\ response = <<>>
    /\ prev = ""

\* Lines 33-94, for the line in gmi.
ClassifyLine ==
    /\ pc = "classify"
    /\ LET r == TokenizeLine(quote_token, gmi[1])
       IN  /\ fence_at' = IF r.quote_token # None THEN 1 ELSE fence_at
           /\ quote_token' = r.quote_token
           /\ token' = r.yield
           /\ tokens' = IF r.yield = None THEN tokens ELSE Append(tokens, r.yield)
    /\ pc' = "classified"
    /\ UNCHANGED <<gmi, builderVars, writerVars, err, callVars>>

NextLine == ClassifyLine

SpecLine == InitLine /\ [][NextLine]_vars

(***************************************************************************)
(* cmd_inetd (lines 322-350): one request line is read from /dev/stdin,    *)
(* and the resource it names, when it is a .gmi file, is converted to      *)
(* /dev/stdout behind a fixed preamble.                                    *)
(***************************************************************************)
\* str.split(): the words of s, separated by runs of whitespace.
RECURSIVE split(_)
split(s) ==
    LET t == lstrip(s)
        n == SpanNot(t, WS)
    IN  IF t = <<>> THEN <<>> ELSE <<SubSeq(t, 1, n)>> \o split(Drop(t, n))

\* The components pathlib keeps of a path text: it splits the text at the
\* slashes and drops the empty components and the components ".".
RECURSIVE Components(_)
Components(s) ==
    IF s = <<>>
    THEN <<>>
    ELSE LET n    == SpanNot(s, {"/"})
             c    == SubSeq(s, 1, n)
             rest == Components(Drop(s, IF n < Len(s) THEN n + 1 ELSE n))
         IN  IF c = <<>> \/ c = <<".">> THEN rest ELSE <<c>> \o rest

\* Line 339, root_dir / resource: a relative resource is looked up under
\* root_dir, an absolute one replaces root_dir.
JoinPath(resource) ==
    [anchor |-> IF startswith(resource, <<"/">>) THEN "/" ELSE "root_dir",
     parts  |-> Components(resource)]

\* PurePath.suffix (line 340): the last component from its last dot on, when
\* that dot is neither its first nor its last character.
suffix(path) ==
    LET name == IF path.parts = <<>> THEN <<>> ELSE path.parts[Len(path.parts)]
        dots == {i \in 1..Len(name) : name[i] = "."}
        last == CHOOSE i \in dots : \A j \in dots : j <= i
    IN  IF dots # {} /\ last > 1 /\ last < Len(name)
        THEN SubSeq(name, last, Len(name))
        ELSE <<>>

\* The regular files of the file system the handler runs on.  (root_dir/d.gmi
\* is a directory, and there is no root_dir/b.gmi.)
Files ==
    { [anchor |-> "root_dir", parts |-> <<<<"a", ".", "g", "m", "i">>>>],
      [anchor |-> "root_dir", parts |-> <<<<"a", ".", "t", "x", "t">>>>],
      [anchor |-> "root_dir", parts |-> <<<<".", "g", "m", "i">>>>],
      [anchor |-> "/", parts |-> <<<<"a", ".", "g", "m", "i">>>>] }

\* Path.is_file() (line 340).
is_file(path) == path \in Files

\* Dispatch, were the resource not tested to be a file.
DispatchNoFileTest(line) ==
    LET request == strip(line)
        words   == split(request)
    IN  IF Len(words) < 2
        THEN "return"
        ELSE LET word     == words[2]
                 resource == IF startswith(word, <<"/">>) THEN Drop(word, 1)
                             ELSE word
                 resource_path == JoinPath(resource)
             IN  IF word = <<>>
                 THEN "return"
                 ELSE IF suffix(resource_path) # <<".", "g", "m", "i">>
                 THEN "return"
                 ELSE "respond"

\* Lines 326-341: the outcome of the tests on the request line read: "return"
\* for each of the three silent returns, "respond" otherwise.
Dispatch(line) ==
    LET request == strip(line)
        words   == split(request)
    IN  IF Len(words) < 2
        THEN "return"
        ELSE LET word     == words[2]
                 resource == IF startswith(word, <<"/">>) THEN Drop(word, 1)
                             ELSE word
                 resource_path == JoinPath(resource)
             IN  IF word = <<>>
                 THEN "return"
                 ELSE IF suffix(resource_path) # <<".", "g", "m", "i">>
                         \/ ~is_file(resource_path)
                 THEN "return"
                 ELSE "respond"

\* Lines 345-347: the three writes cmd_inetd makes before it calls gmi2html.
Preamble ==
    <<"HTTP/1.0 200 OK\r\n", "Content-Type: text/html; charset=utf-8",
      "\r\n\r\n">>

\* What the sink /dev/stdout holds: cmd_inetd's writes, then gmi2html's.
Sink == response \o out

\* The request lines of the model:
\*   \n               an empty line
\*   G\n              one word
\*   G /a.gmi\n       an existing .gmi file
\*   G a.gmi\n        the same, without the leading slash
\*   G /a.gmi H\n     the same, followed by a third word
\*    G  /a.gmi \r\n  the same, with more whitespace
\*   G /b.gmi\n       a .gmi name with no file
\*   G /a.txt\n       an existing file with another extension
\*   G /d.gmi\n       a directory whose name ends in .gmi
\*   G /.gmi\n        an existing file named .gmi, which has no extension
\*   G /\n            the root directory
\*   G //a.gmi\n      an absolute path, to an existing .gmi file outside root_dir
RequestSet ==
    {
      <<"\n">>,
      <<"G", "\n">>,
      <<"G", " ", "/", "a", ".", "g", "m", "i", "\n">>,
      <<"G", " ", "a", ".", "g", "m", "i", "\n">>,
      <<"G", " ", "/", "a", ".", "g", "m", "i", " ", "H", "\n">>,
      <<" ", "G", " ", " ", "/", "a", ".", "g", "m", "i", " ", "\r", "\n">>,
      <<"G", " ", "/", "b", ".", "g", "m", "i", "\n">>,
      <<"G", " ", "/", "a", ".", "t", "x", "t", "\n">>,
      <<"G", " ", "/", "d", ".", "g", "m", "i", "\n">>,
      <<"G", " ", "/", ".", "g", "m", "i", "\n">>,
      <<"G", " ", "/", "\n">>,
      <<"G", " ", "/", "/", "a", ".", "g", "m", "i", "\n">>
    }

InitInetd ==
    /\ pc = "inetd"
    /\ entry = "cmd_inetd"
    /\ stdin \in RequestSet
    /\ response = <<>>
    /\ prev = ""
    /\ gmi = <<>>
    /\ fence_at = 0
    /\ quote_token = None
    /\ token = None
    /\ tokens = <<>>
    /\ root = BuilderInit.root
    /\ links_node = BuilderInit.links_node
    /\ list_node = BuilderInit.list_node
    /\ quote_node = BuilderInit.quote_node
    /\ title = <<>>
    /\ ni = 0
    /\ out = <<>>
    /\ err = ""

\* Lines 325-341: the request line is read and tested; cmd_inetd returns
\* without a write, or goes on to respond.
ReadRequest ==
    /\ pc = "inetd"
    /\ stdin' = <<>>
    /\ pc' = IF Dispatch(stdin) = "respond" THEN "respond" ELSE "returned"
    /\ UNCHANGED <<tokenizerVars, token, builderVars, writerVars, err, entry,
                   response, prev>>

\* WritePreamble, were the preamble written only once the document is ready.
WritePreambleLate ==
    /\ pc = "respond"
    /\ response' = <<>>
    /\ pc' = "tokenize"
    /\ UNCHANGED <<tokenizerVars, token, builderVars, writerVars, err, entry,
                   stdin, prev>>

\* Lines 344-350: the preamble is written to /dev/stdout, the resource is
\* opened, and gmi2html is called with the resource as its stream and
\* /dev/stdout as its sink.
WritePreamble ==
    /\ pc = "respond"
    /\ response' = Preamble
    /\ pc' = "tokenize"
    /\ UNCHANGED <<tokenizerVars, token, builderVars, writerVars, err, entry,
                   stdin, prev>>

NextInetd ==
    \/ ReadRequest
    \/ WritePreamble
    \/ Next

SpecInetd == InitInetd /\ [][NextInetd]_vars

(***************************************************************************)
(* Successive calls of gmi2html in one process.  quote_token (line 29) is  *)
(* a local of the generator tokenize creates, root and the three           *)
(* aggregator slots (lines 106-109) are locals of build_ast, and the       *)
(* module has no other variable that a call assigns.                       *)
(***************************************************************************)
\* NewCall, were quote_token a variable of the module, which a call that ends
\* with an error leaves as it is.
NewCallKeepsQuote ==
    /\ pc \in {"done", "error"}
    /\ entry = "gmi2html"
    /\ prev' = pc
    /\ pc' = "tokenize"
    /\ gmi' = <<>>
    /\ fence_at' = 0
    /\ quote_token' = quote_token
    /\ token' = None
    /\ tokens' = <<>>
    /\ SetBuilder(BuilderInit)
    /\ title' = <<>>
    /\ ni' = 0
    /\ out' = <<>>
    /\ err' = ""
    /\ UNCHANGED <<entry, stdin, response>>

\* Lines 312-315, 29 and 106-109: the caller, which has the document or has
\* caught the error, calls gmi2html again, with another stream and another
\* sink.
NewCall ==
    /\ pc \in {"done", "error"}
    /\ entry = "gmi2html"
    /\ prev' = pc
    /\ pc' = "tokenize"
    /\ gmi' = <<>>
    /\ fence_at' = 0
    /\ quote_token' = None
    /\ token' = None
    /\ tokens' = <<>>
    /\ SetBuilder(BuilderInit)
    /\ title' = <<>>
    /\ ni' = 0
    /\ out' = <<>>
    /\ err' = ""
    /\ UNCHANGED <<entry, stdin, response>>

NextCalls ==
    \/ NewCall
    \/ Next

SpecCalls == Init /\ [][NextCalls]_vars

(***************************************************************************)
(* build_ast and write_html called by a caller other than gmi2html, with   *)
(* tokens and nodes of the caller's making, a kind unknown to the          *)
(* pipeline included.                                                      *)
(***************************************************************************)
\* The tokens such a caller's iterable yields.
DirectTokens ==
    { [kind |-> "header", level |-> 1, title |-> <<"a">>],
      [kind |-> "link", target |-> <<"a">>, title |-> <<>>],
      [kind |-> "bogus"] }

\* The nodes of such a caller's node sequences.
DirectNodes ==
    { [kind |-> "p", content |-> <<"a">>],
      [kind |-> "list", elements |-> << <<"a">> >>],
      [kind |-> "bogus"] }

DirectAsts == UNION {[1..n -> DirectNodes] : n \in 0..MaxDirect}

\* The caller calls gmi2html, or build_ast with its iterable (lines 105-109),
\* or write_html with its node sequence (line 189).
InitDirect ==
    /\ \/ entry = "gmi2html" /\ pc = "tokenize" /\ root = <<>>
       \/ entry = "build_ast" /\ pc = "tokenize" /\ root = <<>>
       \/ entry = "write_html" /\ pc = "write_head" /\ root \in DirectAsts
    /\ stdin = <<>>
    /\ response = <<>>
    /\ prev = ""
    /\ gmi = <<>>
    /\ fence_at = 0
    /\ quote_token = None
    /\ token = None
    /\ tokens = <<>>
    /\ links_node = None
    /\ list_node = None
    /\ quote_node = None
    /\ title = <<>>
    /\ ni = 0
    /\ out = <<>>
    /\ err = ""

\* Line 110, "for token in tokens": the caller's iterable yields a token.
DirectYield ==
    /\ pc = "tokenize"
    /\ entry = "build_ast"
    /\ Len(tokens) < MaxDirect
    /\ \E t \in DirectTokens :
         /\ token' = t
         /\ tokens' = Append(tokens, t)
    /\ pc' = "build"
    /\ UNCHANGED <<gmi, fence_at, quote_token, builderVars, writerVars, err,
                   callVars>>

\* Line 110: the caller's iterable is exhausted.
DirectStop ==
    /\ pc = "tokenize"
    /\ entry = "build_ast"
    /\ pc' = "exhausted"
    /\ UNCHANGED <<tokenizerVars, token, builderVars, writerVars, err, callVars>>

NextDirect ==
    \/ DirectYield
    \/ DirectStop
    \/ Next

SpecDirect == InitDirect /\ [][NextDirect]_vars

(***************************************************************************)
(* The properties.                                                         *)
(***************************************************************************)
\* The conversion has ended, with the document written or with an error.
Ended == pc \in {"done", "error"}

\* build_ast has returned: root is the node sequence handed to write_html.
Built == pc \in {"write_head", "write_body", "done"}

\* The step the tokenizer takes at the end of the stream: it is waiting for a
\* line and none is read.
AtEndOfInput == pc = "tokenize" /\ gmi' = gmi

\* C1: every conversion ends; at the end of the input it fails, with the
\* unterminated-quote error and without yielding a token, exactly when the
\* tokenizer is in the quote state; while a block stays open no token is
\* yielded for it; no other error ends a conversion; and once the input has
\* ended in the normal state no step fails, so that conversion ends with the
\* document written.
C1_FailsExactlyWhenUnterminated ==
    /\ <>Ended
    /\ [][AtEndOfInput =>
            IF quote_token # None
            THEN pc' = "error" /\ err' = UnterminatedQuote /\ tokens' = tokens
            ELSE pc' = "exhausted"]_vars
    /\ [][quote_token # None /\ quote_token' # None => tokens' = tokens]_vars
    /\ [](pc = "error" => quote_token # None /\ err = UnterminatedQuote)
    /\ [][(pc \in {"exhausted", "write_head", "write_body"}) =>
            (pc' \in {"write_head", "write_body", "done"})]_vars

\* C1's case: a conversion that failed after an earlier block was closed and
\* its quote token yielded.
C1_Witness ==
    /\ pc = "error"
    /\ \E i \in 1..Len(tokens) : tokens[i].kind = "quote"

\* C2: when the conversion has failed with the unterminated-quote error,
\* nothing has been written to the sink.
C2_NoOutputOnFailure ==
    (pc = "error" /\ err = UnterminatedQuote) => out = <<>>

\* C2's case: a failed conversion whose input held a valid line and a closed
\* block before the unclosed fence.
C2_Witness ==
    /\ pc = "error"
    /\ err = UnterminatedQuote
    /\ \E i, j \in 1..Len(tokens) :
         tokens[i].kind = "quote" /\ tokens[j].kind \in {"header", "p", "link", "element"}

(***************************************************************************)
(* Runs of tokens and the tokens a node stands for.                        *)
(***************************************************************************)
\* The concatenation of a sequence of sequences.
RECURSIVE Concat(_)
Concat(ss) == IF ss = <<>> THEN <<>> ELSE Head(ss) \o Concat(Tail(ss))

\* The k-th smallest member of a set of integers.
Kth(S, k) == CHOOSE x \in S : Cardinality({y \in S : y <= x}) = k

\* The places in tokens where a maximal run of tokens of kind K begins.
RunStarts(K) ==
    {i \in 1..Len(tokens) :
        tokens[i].kind = K /\ (i = 1 \/ tokens[i - 1].kind # K)}

\* The place where the maximal run of tokens of kind K that begins at i ends.
RunEnd(K, i) ==
    CHOOSE j \in i..Len(tokens) :
        /\ \A m \in i..j : tokens[m].kind = K
        /\ j = Len(tokens) \/ tokens[j + 1].kind # K

\* The nodes of root of kind N, in order.
NodesOfKind(N) == SelectSeq(root, LAMBDA n : n.kind = N)

\* The tokens a node was made from: a header or p node stands for itself, an
\* aggregate for one token per entry.
NodeTokens(n) ==
    CASE n.kind = "links" -> n.links
      [] n.kind = "list" ->
           [i \in 1..Len(n.elements) |->
              [kind |-> "element", content |-> n.elements[i]]]
      [] n.kind = "quote" ->
           [i \in 1..Len(n.content) |->
              [kind |-> "quote", content |-> n.content[i]]]
      [] n.kind = "None" -> <<>>
      [] OTHER -> <<n>>

\* The tokens a node sequence stands for.
Flatten(nodes) == Concat([i \in 1..Len(nodes) |-> NodeTokens(nodes[i])])

\* The nodes of kind N are, in order, the maximal runs of tokens of kind K.
RunsFold(K, N) ==
    /\ Len(NodesOfKind(N)) = Cardinality(RunStarts(K))
    /\ \A k \in 1..Len(NodesOfKind(N)) :
         LET i == Kth(RunStarts(K), k)
         IN  NodeTokens(NodesOfKind(N)[k]) = SubSeq(tokens, i, RunEnd(K, i))

\* C3: in the node sequence build_ast returns, the links nodes are, in order,
\* the maximal runs of consecutive link tokens, each node holding one entry
\* per token of its run in the original order (so a link token after a closed
\* run is in a node of its own); likewise the list nodes for the runs of
\* element tokens and the quote nodes for the runs of quote tokens.
C3_RunsFoldIntoOneNode ==
    Built => /\ RunsFold("link", "links")
             /\ RunsFold("element", "list")
             /\ RunsFold("quote", "quote")

\* C3's case: a run of two link tokens, a token of another kind, then a link
\* token again.
C3_Witness ==
    /\ pc = "done"
    /\ \E i, j \in 1..Len(root) :
         /\ i < j
         /\ root[i].kind = "links" /\ Len(root[i].links) = 2
         /\ root[j].kind = "links"

\* C4: the buffer of an open block is the concatenation of the lines read
\* since its opening fence, as read (so it is empty right after the opening
\* fence), and the quote token yielded at a closing fence holds the
\* concatenation of exactly the lines read between the two fence lines.
C4_QuoteContentIsLinesBetweenFences ==
    /\ quote_token # None =>
         /\ fence_at \in 1..Len(gmi)
         /\ startswith(strip(gmi[fence_at]), Fence)
         /\ quote_token.content = Concat(SubSeq(gmi, fence_at + 1, Len(gmi)))
    /\ (pc = "build" /\ token.kind = "quote") =>
         /\ fence_at \in 1..(Len(gmi) - 1)
         /\ startswith(strip(gmi[fence_at]), Fence)
         /\ startswith(gmi[Len(gmi)], Fence)
         /\ token.content = Concat(SubSeq(gmi, fence_at + 1, Len(gmi) - 1))
         /\ tokens[Len(tokens)] = token

\* C4's case: a block closed around one line with whitespace on both sides.
C4_Witness ==
    /\ pc = "build"
    /\ token.kind = "quote"
    /\ token.content = <<" ", "a", " ", "\n">>

\* The title the claim describes: that of the first header node of level 1.
FirstLevelOneTitle ==
    LET H == {i \in 1..Len(root) : root[i].kind = "header" /\ root[i].level = 1}
    IN  IF H = {}
        THEN <<"Page without title">>
        ELSE root[CHOOSE i \in H : \A j \in H : i <= j].title

\* C5: the title write_html finds, and writes in the head of the document, is
\* the title of the first header node of level 1, and "Page without title"
\* when there is none.
C5_TitleIsFirstLevelOneHeader ==
    pc \in {"write_body", "done"} =>
        /\ title = FirstLevelOneTitle
        /\ out[1] = HeadText(FirstLevelOneTitle)

\* C5's case: a level-2 header comes first, then a level-1 header, then a
\* level-1 header with another title.
C5_Witness ==
    /\ pc = "done"
    /\ \E i, j, k \in 1..Len(root) :
         /\ i < j /\ j < k
         /\ root[i].kind = "header" /\ root[i].level = 2
         /\ root[j].kind = "header" /\ root[j].level = 1
         /\ root[k].kind = "header" /\ root[k].level = 1
         /\ root[k].title # root[j].title
         /\ root[i].title # root[j].title
         /\ title = root[j].title

\* The places in tokens where a group begins: a header or p token, or the
\* first token of a maximal run of tokens of one kind.
GroupStarts ==
    {i \in 1..Len(tokens) :
        \/ tokens[i].kind \in {"header", "p"}
        \/ i = 1
        \/ tokens[i - 1].kind # tokens[i].kind}

\* C6: build_ast returns as many nodes as the token stream has groups, and
\* write_html has rendered as many when it is done.
C6_NodeCountIsGroupCount ==
    /\ Built => Len(root) = Cardinality(GroupStarts)
    /\ pc = "done" => ni = Cardinality(GroupStarts)

\* C6's case: a stream with runs of more than one token and several groups.
C6_Witness ==
    /\ pc = "done"
    /\ Len(root) = 2
    /\ Len(tokens) = 4

\* The entries of the aggregators that are open.
OpenTokens ==
    NodeTokens(links_node) \o NodeTokens(list_node) \o NodeTokens(quote_node)

\* C7: while build_ast consumes tokens, root followed by the open aggregator
\* stands for exactly the tokens consumed so far; the node sequence it returns
\* stands for exactly the tokens of the stream, in order.
C7_NoTokenLostOrReordered ==
    /\ pc = "tokenize" => Flatten(root) \o OpenTokens = tokens
    /\ Built => Flatten(root) = tokens

\* C7's case: the stream ended while a run of two tokens was open, after a
\* node of another kind.
C7_Witness ==
    /\ pc = "done"
    /\ Len(tokens) >= 3
    /\ tokens[Len(tokens)].kind \in {"link", "element", "quote"}
    /\ tokens[Len(tokens) - 1].kind = tokens[Len(tokens)].kind
    /\ tokens[1].kind # tokens[Len(tokens)].kind

\* The step in which the tokenizer reads a line in the quote state, and the
\* line it reads.
ReadsInQuote == pc = "tokenize" /\ quote_token # None /\ gmi' # gmi
LineRead == gmi'[Len(gmi')]

\* The block is closed: its token is yielded with the buffer accumulated so
\* far, and the tokenizer is back in the normal state without a buffer.
BlockClosed ==
    /\ token' = quote_token
    /\ tokens' = Append(tokens, quote_token)
    /\ quote_token' = None
    /\ pc' = "build"

\* The line read is appended to the buffer as read, and nothing is yielded.
LineAppended ==
    /\ quote_token' = [kind |-> "quote", content |-> quote_token.content \o LineRead]
    /\ tokens' = tokens
    /\ pc' = "tokenize"

\* C8, as claimed: in the quote state every line whose trimmed form starts with
\* three backquotes closes the block and is not appended to the buffer.
C8_TrimmedFenceCloses ==
    [][(ReadsInQuote /\ startswith(strip(LineRead), Fence)) => BlockClosed]_vars

\* C8, amended: in the quote state a line closes the block exactly when the
\* line as read, untrimmed, starts with three backquotes, and such a line is
\* not appended; every other line, a fence behind leading whitespace included,
\* is appended to the buffer as read.
C8_UntrimmedFenceCloses ==
    [][ReadsInQuote =>
         IF startswith(LineRead, Fence) THEN BlockClosed ELSE LineAppended]_vars

\* C8's case: a block closed by a fence line, after a fence behind a space was
\* read in it and kept as content.
C8_Witness ==
    /\ pc = "build"
    /\ token.kind = "quote"
    /\ token.content = <<" ", BQ, BQ, BQ, "\n">>
    /\ gmi[Len(gmi)] = <<BQ, BQ, BQ, "\n">>

\* The line of the classifier's specification, trimmed.
Trimmed == strip(gmi[1])

\* t is "=>", then whitespace up to place i (at least minSpace characters),
\* then a target without whitespace up to place j, then either nothing or
\* whitespace and a title.
LinkShape(t, minSpace, i, j) ==
    /\ Len(t) >= 3
    /\ t[1] = "=" /\ t[2] = ">"
    /\ i - 2 >= minSpace
    /\ i < j
    /\ \A x \in 3..i : t[x] \in WS
    /\ \A x \in (i + 1)..j : t[x] \notin WS
    /\ \/ j = Len(t)
       \/ \E k \in (j + 1)..(Len(t) - 1) : \A x \in (j + 1)..k : t[x] \in WS

\* The title of a line of that shape: what follows the whitespace after the
\* target, the empty string when nothing follows the target.
TitleAfter(t, j) ==
    IF j = Len(t)
    THEN <<>>
    ELSE LET k == CHOOSE x \in (j + 1)..(Len(t) - 1) :
                     /\ \A y \in (j + 1)..x : t[y] \in WS
                     /\ t[x + 1] \notin WS
         IN  SubSeq(t, k + 1, Len(t))

\* The line is classified as a link token exactly when it has the link shape,
\* and the token then holds the target and the title of the line.
LinkExactly(minSpace) ==
    pc = "classified" =>
        LET t == Trimmed
            S == {p \in (2..Len(t)) \X (3..Len(t)) :
                    LinkShape(t, minSpace, p[1], p[2])}
        IN  /\ token.kind = "link" <=> S # {}
            /\ token.kind = "link" =>
                 \A p \in S :
                    /\ token.target = SubSeq(t, p[1] + 1, p[2])
                    /\ token.title = TitleAfter(t, p[2])

\* C9, as claimed: a trimmed line is a link token exactly when it is "=>",
\* whitespace, a target without whitespace and, optionally, whitespace and a
\* title; a line that begins with "=>" without whitespace after it is not.
C9_LinkNeedsWhitespace == LinkExactly(1)

\* C9, amended: a trimmed line is a link token exactly when it is "=>",
\* optional whitespace, a target without whitespace and, optionally,
\* whitespace and a title; the title is empty when there is none; a line that
\* begins with "=>" and has no target is not a link token.
C9_LinkWhitespaceOptional == LinkExactly(0)

\* C9's case: a line with the target right after "=>", and a title.
C9_Witness ==
    /\ pc = "classified"
    /\ gmi[1] = <<"=", ">", "a", " ", "#", "\n">>
    /\ token = [kind |-> "link", target |-> <<"a">>, title |-> <<"#">>]

\* The text write_html is to emit for a node.
ExpectedFragment(node) ==
    CASE node.kind = "header" ->
           <<"  <h", Decimal(node.level), ">">> \o node.title
           \o <<"</h", Decimal(node.level), ">\n">>
      [] node.kind = "p" ->
           <<"  <p>">> \o node.content \o <<"</p>\n">>
      [] node.kind = "links" ->
           <<"  <ul>\n">>
           \o Concat([i \in 1..Len(node.links) |->
                        <<"    <li><a href=\"">> \o node.links[i].target
                        \o <<"\">">> \o node.links[i].title
                        \o <<"</a></li>\n">>])
           \o <<"  </ul>\n">>
      [] node.kind = "list" ->
           <<"  <ul>\n">>
           \o Concat([i \in 1..Len(node.elements) |->
                        <<"    <li>">> \o node.elements[i] \o <<"</li>\n">>])
           \o <<"  </ul>\n">>
      [] node.kind = "quote" ->
           <<"  <pre>\n">>
           \o Concat([i \in 1..Len(node.content) |->
                        node.content[i] \o <<"\n">>])
           \o <<"  </pre>\n">>

\* The text of the first n nodes.
ExpectedBody(n) == Concat([i \in 1..n |-> ExpectedFragment(root[i])])

\* C10: after the head of the document, the text written is the fragments of
\* the nodes rendered so far, one per node in the order of the node sequence;
\* the finished document is the head, the fragments of all the nodes and the
\* tail; and no step of write_html changes the node sequence.
C10_OneFragmentPerNode ==
    /\ [](pc = "write_body" =>
            Concat(out) = HeadText(title) \o StyleText \o ExpectedBody(ni))
    /\ [](pc = "done" =>
            Concat(out) = HeadText(title) \o StyleText \o ExpectedBody(Len(root))
                          \o TailText)
    /\ [][(pc \in {"write_head", "write_body"}) => (root' = root)]_vars

\* C10's case: a finished document with a links node of two links and a quote
\* node.
C10_Witness ==
    /\ pc = "done"
    /\ \E i, k \in 1..Len(root) :
         /\ root[i].kind = "links" /\ Len(root[i].links) = 2
         /\ root[k].kind = "quote"

\* How many of the three aggregator slots of a builder state are open.
OpenCount(b) ==
    (IF b.links_node # None THEN 1 ELSE 0)
    + (IF b.list_node # None THEN 1 ELSE 0)
    + (IF b.quote_node # None THEN 1 ELSE 0)

\* The builder states the body of build_ast's loop passes through for the
\* token just yielded: before it, after each of the three closing tests, and
\* after the token is added.
LoopBodyStates ==
    { Builder,
      CloseLinks(Builder, token),
      CloseList(CloseLinks(Builder, token), token),
      CloseNodes(Builder, token),
      BuildToken(Builder, token) }

\* C11: at most one of the slots links_node, list_node and quote_node is open,
\* between tokens, at every step of the loop body for a token, and when
\* build_ast returns.
C11_AtMostOneAggregatorOpen ==
    /\ OpenCount(Builder) <= 1
    /\ pc = "build" => \A b \in LoopBodyStates : OpenCount(b) <= 1
    /\ pc = "exhausted" => OpenCount(BuildFinish(Builder)) <= 1

\* C11's case: a token that opens an aggregator arrives while an aggregator of
\* another kind is open.
C11_Witness ==
    /\ pc = "build"
    /\ list_node # None
    /\ token.kind \in {"link", "quote"}

\* C12: for the empty input the tokenizer yields no token, build_ast returns
\* the empty node sequence, no step fails, and the finished document is the
\* head with the title "Page without title", and the tail, with no fragment.
C12_EmptyInput ==
    gmi = <<>> =>
        /\ tokens = <<>>
        /\ root = <<>>
        /\ pc # "error" /\ err = ""
        /\ pc = "done" =>
             out = << <<"<!DOCTYPE html>\n<html lang=\"en\">\n  <head>\n   <meta charset=\"utf-8\">\n   <title>",
                        "Page without title", "</title>\n">>,
                      StyleText, TailText >>

\* C12's case: the conversion of the empty input is done.
C12_Witness == gmi = <<>> /\ pc = "done"

\* The last token yielded is a header of level 1, it is the token of the last
\* line of the input, and no token before it is a header of level 1.
OnlyLevelOneHeaderIsLast ==
    /\ tokens # <<>>
    /\ gmi # <<>>
    /\ tokens[Len(tokens)].kind = "header"
    /\ tokens[Len(tokens)].level = 1
    /\ NormalLine(gmi[Len(gmi)]).yield = tokens[Len(tokens)]
    /\ \A i \in 1..(Len(tokens) - 1) :
           ~(tokens[i].kind = "header" /\ tokens[i].level = 1)

\* C14: nothing is written before the tokenizer is exhausted and build_ast has
\* returned; from then on the input read and the node sequence do not change;
\* so a header of level 1 on the last line, the only one of the input, is the
\* title written first.
C14_RendererAfterBuilder ==
    /\ [](out # <<>> => pc \in {"write_body", "done"})
    /\ [][(out' # out) => (pc \in {"write_head", "write_body"})]_vars
    /\ [][(pc \in {"write_head", "write_body", "done"}) =>
            (gmi' = gmi /\ tokens' = tokens /\ root' = root)]_vars
    /\ []((pc \in {"write_body", "done"} /\ OnlyLevelOneHeaderIsLast) =>
            (/\ title = tokens[Len(tokens)].title
             /\ out[1] = HeadText(tokens[Len(tokens)].title)))

\* C14's case: a document is done whose only header of level 1 is its last
\* line, after two other lines.
C14_Witness ==
    /\ pc = "done"
    /\ Len(gmi) >= 3
    /\ OnlyLevelOneHeaderIsLast
    /\ title = <<"a">>

\* A line is read from the input.
Reads == pc = "tokenize" /\ gmi' # gmi

\* The line read yields no token, or exactly one, which is handed to build_ast.
YieldsNothing == tokens' = tokens /\ pc' = "tokenize"
YieldsOne ==
    /\ Len(tokens') = Len(tokens) + 1
    /\ SubSeq(tokens', 1, Len(tokens)) = tokens
    /\ token' = tokens'[Len(tokens')]
    /\ pc' = "build"

\* What the tokenizer does with the line read, given which lines are fences in
\* the quote state.
TokensPerLine(ClosingFence(_)) ==
    IF quote_token = None
    THEN IF startswith(strip(LineRead), Fence)
         THEN YieldsNothing /\ quote_token' # None
         ELSE YieldsOne /\ token'.kind # "quote" /\ quote_token' = None
    ELSE IF ClosingFence(LineRead)
         THEN YieldsOne /\ token'.kind = "quote" /\ quote_token' = None
         ELSE YieldsNothing /\ quote_token' # None

TrimmedFence(line) == startswith(strip(line), Fence)
UntrimmedFence(line) == startswith(line, Fence)

\* C15, as claimed, a fence line being a line whose trimmed form starts with
\* three backquotes: one token per line of the normal state that is not a fence,
\* none for an opening fence, none for a line of the quote state that is not a
\* fence, one quote token per closing fence, and the state changes on fence
\* lines only.
C15_OneTokenPerLineTrimmedFence ==
    /\ [][Reads => TokensPerLine(TrimmedFence)]_vars
    /\ [][(gmi' = gmi) => ((quote_token' = None) <=> (quote_token = None))]_vars

\* C15, amended: the same, a closing fence being a line that starts with three
\* backquotes as read, untrimmed; a line of the quote state with whitespace
\* before the backquotes yields no token and leaves the state unchanged.
C15_OneTokenPerLineUntrimmedFence ==
    /\ [][Reads => TokensPerLine(UntrimmedFence)]_vars
    /\ [][(gmi' = gmi) => ((quote_token' = None) <=> (quote_token = None))]_vars

\* C15's case: in the quote state, a line that matches the header pattern and a
\* line that matches the link pattern were read and no token was yielded.
C15_Witness ==
    /\ quote_token # None
    /\ tokens = <<>>
    /\ Len(gmi) = 3
    /\ header_regex(strip(gmi[2])).matched
    /\ link_regex(strip(gmi[3])).matched

\* The aggregator nodes open in the builder, in the order lines 112-122 test
\* them.
OpenNodes ==
    (IF links_node # None THEN <<links_node>> ELSE <<>>)
    \o (IF list_node # None THEN <<list_node>> ELSE <<>>)
    \o (IF quote_node # None THEN <<quote_node>> ELSE <<>>)

\* C16: on a header or paragraph token, build_ast appends the open aggregator
\* node, then a node with the kind and the fields of the token, and leaves no
\* aggregator open.
C16_HeaderAndParagraphCloseAggregators ==
    [][(pc = "build" /\ token.kind \in {"header", "p"}) =>
         (/\ root' = root \o OpenNodes \o <<token>>
          /\ links_node' = None
          /\ list_node' = None
          /\ quote_node' = None)]_vars

\* C16's case: a header or paragraph node was appended right after the
\* aggregator node its token closed.
C16_Witness ==
    /\ pc = "tokenize"
    /\ Len(root) >= 2
    /\ root[Len(root)].kind \in {"header", "p"}
    /\ root[Len(root)] = tokens[Len(tokens)]
    /\ root[Len(root) - 1].kind \in {"links", "list", "quote"}
    /\ OpenNodes = <<>>

\* The paragraph token, and node, with empty content.
EmptyParagraph == [kind |-> "p", content |-> <<>>]

\* The token a line yields in the normal state (None for a fence).
TokenOf(line) == NormalLine(line).yield

\* No line of the input is a fence, so every line is read in the normal state.
NoFenceLine == \A k \in 1..Len(gmi) : ~startswith(strip(gmi[k]), Fence)

\* The lines i and i + 2 yield tokens of kind K and the line between them is
\* blank.
BlankBetween(K, i) ==
    /\ TokenOf(gmi[i]).kind = K
    /\ strip(gmi[i + 1]) = <<>>
    /\ TokenOf(gmi[i + 2]).kind = K

\* root has a node of kind N ending with the token of line i, then an empty
\* paragraph node, then another node of kind N starting with the token of line
\* i + 2.
SplitByParagraph(N, i) ==
    \E j \in 1..(Len(root) - 2) :
        /\ root[j].kind = N
        /\ NodeTokens(root[j])[Len(NodeTokens(root[j]))] = TokenOf(gmi[i])
        /\ root[j + 1] = EmptyParagraph
        /\ root[j + 2].kind = N
        /\ NodeTokens(root[j + 2])[1] = TokenOf(gmi[i + 2])

\* C17: in the normal state a line that is blank once stripped yields a
\* paragraph token with empty content; so in an input without fence a blank
\* line between two link lines, or two list-item lines, gives two links nodes,
\* or two list nodes, with an empty paragraph node between them.
C17_BlankLineIsParagraph ==
    /\ [][(Reads /\ quote_token = None /\ strip(LineRead) = <<>>) =>
            (/\ token' = EmptyParagraph
             /\ tokens' = Append(tokens, EmptyParagraph)
             /\ quote_token' = None
             /\ pc' = "build")]_vars
    /\ []((Built /\ NoFenceLine) =>
            \A i \in 1..(Len(gmi) - 2) :
                /\ BlankBetween("link", i) => SplitByParagraph("links", i)
                /\ BlankBetween("element", i) => SplitByParagraph("list", i))

\* C17's case: a document of two link lines with a blank line between them is
\* built.
C17_Witness ==
    /\ pc = "done"
    /\ Len(gmi) = 3
    /\ NoFenceLine
    /\ BlankBetween("link", 1)
    /\ Len(root) = 3

\* The path carries the .gmi extension: its last component is a name followed
\* by ".gmi".
HasGmiExtension(path) ==
    /\ path.parts # <<>>
    /\ LET name == path.parts[Len(path.parts)]
       IN  /\ Len(name) > 4
           /\ SubSeq(name, Len(name) - 3, Len(name)) = <<".", "g", "m", "i">>

\* The request line names, as its second word, a resource whose path under
\* root_dir is a file and carries the .gmi extension.
Servable(line) ==
    LET words == split(line)
    IN  /\ Len(words) >= 2
        /\ LET word == words[2]
               path == JoinPath(IF Head(word) = "/" THEN Tail(word) ELSE word)
           IN  path \in Files /\ HasGmiExtension(path)

\* C13: cmd_inetd goes on to respond exactly when the request names a .gmi
\* file; otherwise it returns, for good, with nothing written and no error;
\* nothing is written before it responds, its first writes are the preamble,
\* and whatever gmi2html writes comes behind the preamble.
C13_RespondsExactlyToGmiFiles ==
    /\ [][(pc = "inetd") =>
            (pc' = IF Servable(stdin) THEN "respond" ELSE "returned")]_vars
    /\ [][pc # "returned"]_vars
    /\ [](pc \in {"inetd", "respond", "returned"} => (Sink = <<>> /\ err = ""))
    /\ [][(pc = "respond") => (Sink' = Preamble)]_vars
    /\ [](pc \notin {"inetd", "respond", "returned"} =>
            (/\ Sink # <<>>
             /\ SubSeq(Sink, 1, 3) =
                  <<"HTTP/1.0 200 OK\r\n",
                    "Content-Type: text/html; charset=utf-8", "\r\n\r\n">>
             /\ SubSeq(Sink, 4, Len(Sink)) = out))

\* C13's case: cmd_inetd has responded with the preamble and a whole document.
C13_Witness ==
    /\ entry = "cmd_inetd"
    /\ pc = "done"
    /\ Len(Sink) > 6
    /\ root # <<>>

\* C20: in cmd_inetd the preamble is in the sink before the first line of the
\* resource is read; when the conversion ends with the unterminated-quote
\* error, the sink holds the preamble and nothing else, and the error is not
\* caught.
C20_PreambleBeforeAnyLine ==
    entry = "cmd_inetd" =>
        /\ gmi # <<>> => (response = Preamble /\ SubSeq(Sink, 1, 3) = Preamble)
        /\ pc = "error" =>
             (/\ err = "Found a quote without end tag"
              /\ Sink = Preamble
              /\ out = <<>>)

\* C20's case: cmd_inetd has responded to a resource with an opening fence and
\* no closing fence, and the conversion has failed.
C20_Witness ==
    /\ entry = "cmd_inetd"
    /\ pc = "error"
    /\ quote_token # None
    /\ Len(gmi) >= 2
    /\ Sink # <<>>

\* What a conversion that starts in the normal state with an empty builder
\* makes of the lines from the i-th on, given the state qt of the tokenizer and
\* the state b of the builder before that line: the writes and the error.
RECURSIVE OutcomeFrom(_, _, _, _)
OutcomeFrom(lines, i, qt, b) ==
    IF i <= Len(lines)
    THEN LET r == TokenizeLine(qt, lines[i])
         IN  OutcomeFrom(lines, i + 1, r.quote_token,
                         IF r.yield = None THEN b ELSE BuildToken(b, r.yield))
    ELSE IF qt # None
    THEN [out |-> <<>>, err |-> UnterminatedQuote]
    ELSE LET ast == BuildFinish(b).root
         IN  [out |-> <<HeadText(FindTitle(ast)), StyleText>>
                      \o Concat([k \in 1..Len(ast) |-> NodeWrites(ast[k])])
                      \o <<TailText>>,
              err |-> ""]

\* The outcome of a conversion as a function of its lines alone.
Outcome(lines) == OutcomeFrom(lines, 1, None, BuilderInit)

KnownKinds ==
    /\ \A i \in 1..Len(tokens) :
           tokens[i].kind \in {"header", "element", "link", "quote", "p"}
    /\ token = None \/ token.kind \in {"header", "element", "link", "quote", "p"}
    /\ \A i \in 1..Len(root) :
           root[i].kind \in {"header", "p", "links", "list", "quote"}
    /\ \A i \in 1..Len(OpenNodes) :
           OpenNodes[i].kind \in {"links", "list", "quote"}

\* C19: in a call of gmi2html every token and every node has a known kind and
\* neither unhandled-kind error is raised; and when a caller hands build_ast a
\* token, or write_html a node, of another kind, the stage does not skip it:
\* it ends with its unhandled-kind error, and nothing is written for it.
C19_UnhandledKindsOnlyFromOutside ==
    /\ [](entry = "gmi2html" =>
            (/\ KnownKinds
             /\ err \notin {"Unhandled token of kind", "Unhandled node of kind"}))
    /\ [][(pc = "build"
           /\ token.kind \notin {"header", "element", "link", "quote", "p"}) =>
            (/\ pc' = "error"
             /\ err' = "Unhandled token of kind"
             /\ Flatten(root' \o OpenNodes') = Flatten(root \o OpenNodes)
             /\ out' = out)]_vars
    /\ [][(pc = "write_body"
           /\ ni < Len(root)
           /\ root[ni + 1].kind \notin {"header", "p", "links", "list", "quote"}) =>
            (/\ pc' = "error"
             /\ err' = "Unhandled node of kind"
             /\ out' = out)]_vars

\* C19's case: a call of gmi2html is done in which the tokenizer yielded tokens
\* of four kinds and write_html rendered nodes of four kinds.
C19_Witness ==
    /\ entry = "gmi2html"
    /\ pc = "done"
    /\ Cardinality({tokens[i].kind : i \in 1..Len(tokens)}) = 4
    /\ Cardinality({root[i].kind : i \in 1..Len(root)}) = 4

=============================================================================
